---- MODULE Spec2Model ----
(***************************************************************************)
(* packages/vite/src/esbuild-request.ts: the esbuild request adapter and   *)
(* the process-wide status channel it shares with the rollup resolver.     *)
(*                                                                         *)
(* JavaScript strings are modelled as sequences of one-character strings,  *)
(* so that path[0], startsWith and concatenation are computed.  The empty  *)
(* sequence stands for both "" and an undefined string: the code only ever *)
(* tests such values for truthiness.                                       *)
(***************************************************************************)
EXTENDS Integers, Sequences, FiniteSets, TLC

VARIABLES
  channel,       \* globalThis.__embroider_vite_resolver_channel__ : Map<string, InternalStatus>
  calls,         \* the resolve() calls suspended at `await this.context.resolve(...)`
  last,          \* what the most recently completed resolve() call read and returned
  phase,         \* EsBuildRequestAdapter.phase
  packageCache,  \* EsBuildRequestAdapter.packageCache
  log,           \* the channel operations applied by the ledger harness, in order
  build,         \* rollupDeclarationsPlugin: the rollup build, glintPromise and the .d.ts files
  hist           \* history of the channel: what was written and observed per specifier

vars == <<channel, calls, last, phase, packageCache, log, build, hist>>

----------------------------------------------------------------------------
(* Bounds *)

MaxCalls == 2    \* resolve() calls that may be in flight together
MaxOps == 4      \* length of a ledger operation sequence

----------------------------------------------------------------------------
(* Strings *)

undefined == << >>

startsWith(s, prefix) ==
  /\ Len(s) >= Len(prefix)
  /\ SubSeq(s, 1, Len(prefix)) = prefix

truthy(s) == s # undefined

\* a || b on strings
orElse(a, b) == IF truthy(a) THEN a ELSE b

RelSpec == <<".", "/", "w">>                 \* a relative specifier
PkgSpec == <<"l", "/", "f">>                 \* a package-qualified specifier
AppRoot == <<"/", "a">>                      \* packageCache.appRoot
DepRoot == <<"/", "d">>                      \* root of a dependency package
AppFile == <<"/", "a", "/", "w">>            \* on-disk file of the app
DepFile == <<"/", "d", "/", "f">>            \* on-disk file of the dependency
AbsSpec == AppFile                           \* an absolute-path specifier
AppName == <<"m">>                           \* name in the app's package.json

Specifiers == {RelSpec, PkgSpec, AbsSpec}
Filenames == {DepFile}

NsFile == <<"f", "i", "l", "e">>
NsEmbroider == <<"e", "m", "b", "r", "o", "i", "d", "e", "r", "-", "v">>
NsPolyfill == <<"p", "o", "l", "y">>
EmbroiderPrefix == <<"e", "m", "b", "r", "o", "i", "d", "e", "r", "-">>
Namespaces == {NsFile, NsEmbroider, NsPolyfill}

----------------------------------------------------------------------------
(* InternalStatus and the channel *)

Pending == [type |-> "pending"]
NotFoundStatus == [type |-> "not_found"]
FoundStatus(f) == [type |-> "found", filename |-> f]
NoStatus == [type |-> "undefined"]           \* Map.get of an absent key

InternalStatus == {Pending, NotFoundStatus} \cup {FoundStatus(f) : f \in Filenames}
WrittenStatus == InternalStatus \ {Pending}  \* what the rollup resolver writes

\* the Map is the function whose domain is the set of keys present
sharedGlobalState == [k \in {} |-> Pending]

mapGet(ch, id) == IF id \in DOMAIN ch THEN ch[id] ELSE NoStatus
mapSet(ch, id, v) == [k \in (DOMAIN ch) \cup {id} |-> IF k = id THEN v ELSE ch[k]]
mapDelete(ch, id) == [k \in (DOMAIN ch) \ {id} |-> ch[k]]

requestStatusIfAbsent(ch, id) == IF id \in DOMAIN ch THEN ch ELSE mapSet(ch, id, Pending)

requestStatus(ch, id) == mapSet(ch, id, Pending)

writeStatusUnguarded(ch, id, status) == mapSet(ch, id, status)

writeStatusIfPresent(ch, id, status) ==
  IF id \in DOMAIN ch THEN mapSet(ch, id, status) ELSE ch

writeStatus(ch, id, status) ==
  IF mapGet(ch, id).type = "pending" THEN mapSet(ch, id, status) ELSE ch

readStatusKeeps(ch, id) ==
  [result |-> IF mapGet(ch, id).type # "undefined" THEN mapGet(ch, id) ELSE Pending,
   channel |-> ch]

\* the value returned, and the channel left behind
readStatus(ch, id) ==
  [result |-> IF mapGet(ch, id).type # "undefined" THEN mapGet(ch, id) ELSE Pending,
   channel |-> mapDelete(ch, id)]

----------------------------------------------------------------------------
(* Collaborators of the adapter *)

\* @embroider/core packageName: the package-name prefix of a specifier,
\* nothing for a relative or absolute path
RECURSIVE firstSegment(_)
firstSegment(s) ==
  IF s = << >> \/ Head(s) = "/" THEN << >> ELSE <<Head(s)>> \o firstSegment(Tail(s))

packageName(specifier) ==
  IF specifier = << >> \/ Head(specifier) \in {".", "/"}
  THEN undefined
  ELSE firstSegment(specifier)

\* @embroider/reverse-exports externalName: the name under which the package
\* exposes ./path to its importers, nothing when the manifest exposes none
externalName(packageJSON, path) ==
  IF path \in packageJSON.exports THEN packageJSON.name \o Tail(path) ELSE undefined

NoPackage == [root |-> undefined]

\* packageCache.ownerOfFile: the package whose root directory holds the file
ownerOfFile(cache, path) ==
  IF startsWith(path, cache.appRoot) THEN [root |-> cache.appRoot, packageJSON |-> cache.appJSON]
  ELSE IF startsWith(path, DepRoot) THEN [root |-> DepRoot, packageJSON |-> [name |-> <<"d">>, exports |-> {}]]
  ELSE NoPackage

PackageCaches ==
  {[appRoot |-> AppRoot, appJSON |-> [name |-> AppName, exports |-> e]] : e \in {{}, {RelSpec}}}

\* the OnResolveResult fields the adapter reads; what the host resolver
\* answers for a specifier is opaque to the adapter
ErrorMessage == [text |-> "e"]
HostResults(specifier) ==
  [path : {AppFile, DepFile, specifier},
   external : BOOLEAN,
   namespace : Namespaces,
   errors : {<< >>, <<ErrorMessage>>}]

----------------------------------------------------------------------------
(* EsBuildRequestAdapter.resolve, after the await *)

boundaryFiresAnyPhase(ph, cache, result) ==
  /\ ownerOfFile(cache, result.path).root = cache.appRoot
  /\ (result.namespace = NsFile \/ startsWith(result.namespace, EmbroiderPrefix))

boundaryFires(ph, cache, result) ==
  /\ ph = "bundling"
  /\ ownerOfFile(cache, result.path).root = cache.appRoot
  /\ (result.namespace = NsFile \/ startsWith(result.namespace, EmbroiderPrefix))

externalizedNameNoLookup(cache, request, result) == request.specifier

externalizedName(cache, request, result) ==
  IF ~truthy(packageName(request.specifier))
  THEN orElse(externalName(ownerOfFile(cache, result.path).packageJSON, request.specifier),
              request.specifier)
  ELSE request.specifier

externalizedKeepsPath(cache, request, result) ==
  [type |-> "found",
   filename |-> result.path,
   virtual |-> FALSE,
   result |-> [path |-> result.path, external |-> TRUE]]

externalized(cache, request, result) ==
  [type |-> "found",
   filename |-> externalizedName(cache, request, result),
   virtual |-> FALSE,
   result |-> [path |-> externalizedName(cache, request, result), external |-> TRUE]]

filenameOfHost(status, result) == result.path

filenameOfStatus(status, result) ==
  IF status.type = "found" THEN status.filename ELSE result.path

filename(status, result) ==
  IF status.type = "found" /\ result.external THEN status.filename ELSE result.path

isNotFoundErrorsOnly(result, status) == Len(result.errors) > 0

isNotFoundStatusOnly(result, status) == status.type = "not_found"

isNotFound(result, status) ==
  Len(result.errors) > 0 \/ status.type = "not_found"

resolution(ph, cache, request, result, status) ==
  IF isNotFound(result, status)
  THEN [type |-> "not_found", err |-> result]
  ELSE IF boundaryFires(ph, cache, result)
  THEN externalized(cache, request, result)
  ELSE [type |-> "found", filename |-> filename(status, result), result |-> result, virtual |-> FALSE]

----------------------------------------------------------------------------
(* JavaScript values of the plugin data, and EsBuildRequestAdapter.create *)

Undef == [t |-> "undefined"]
Null == [t |-> "null"]
Bool(b) == [t |-> "boolean", v |-> b]
Meta == [t |-> "object", v |-> "meta"]

nullish(x) == x.t \in {"undefined", "null"}

\* x?.field
optGet(x, field) == IF nullish(x) THEN Undef ELSE x[field]

\* a ?? b
coalesce(a, b) == IF nullish(a) THEN b ELSE a

\* !x
not(x) == IF x.t = "boolean" THEN ~x.v ELSE nullish(x)

Embroider(flag, meta) == [t |-> "object", enableCustomResolver |-> flag, meta |-> meta]
PluginData(embroider) == [t |-> "object", embroider |-> embroider]

PluginDatas ==
  {Undef, PluginData(Undef)}
    \cup {PluginData(Embroider(flag, meta)) :
            flag \in {Undef, Null, Bool(TRUE), Bool(FALSE)}, meta \in {Undef, Meta}}

NUL == "NUL"                                 \* the character \0
VirtualModulePrefix ==
  <<"v", "i", "r", "t", "u", "a", "l", "-", "m", "o", "d", "u", "l", "e", ":">>
VirtualModulePath == VirtualModulePrefix \o <<"x">>
NullPath == <<NUL, "x">>
Importer == <<"/", "d", "/", "i", "?", "v">>
Paths == {undefined, RelSpec, PkgSpec, VirtualModulePath, NullPath}
Importers == {undefined, Importer}
Platforms == {"linux", "win32"}
ImportKind == "import-statement"

\* @embroider/core cleanUrl: the url without its ?query and #hash
RECURSIVE cleanUrl(_)
cleanUrl(url) ==
  IF url = << >> \/ Head(url) \in {"?", "#"} THEN << >>
  ELSE <<Head(url)>> \o cleanUrl(Tail(url))

\* fromFile.replace(/\//g, '\\')
RECURSIVE backslashes(_)
backslashes(s) ==
  IF s = << >> THEN << >>
  ELSE <<IF Head(s) = "/" THEN "\\" ELSE Head(s)>> \o backslashes(Tail(s))

fromFileOf(importer, platform) ==
  IF platform = "win32" THEN backslashes(cleanUrl(importer)) ELSE cleanUrl(importer)

Adapter(cache, ph, kind) == [packageCache |-> cache, phase |-> ph, kind |-> kind]

createIgnoresFlag(cache, ph, kind, path, importer, pluginData, platform) ==
  IF truthy(path) /\ truthy(importer) /\ Head(path) # NUL
       /\ ~startsWith(path, VirtualModulePrefix)
  THEN [initialState |-> [specifier |-> path,
                          fromFile |-> fromFileOf(importer, platform),
                          meta |-> optGet(optGet(pluginData, "embroider"), "meta")],
        adapter |-> Adapter(cache, ph, kind)]
  ELSE Undef

createAcceptsVirtual(cache, ph, kind, path, importer, pluginData, platform) ==
  IF not(coalesce(optGet(optGet(pluginData, "embroider"), "enableCustomResolver"), Bool(TRUE)))
  THEN Undef
  ELSE IF truthy(path) /\ truthy(importer) /\ Head(path) # NUL
  THEN [initialState |-> [specifier |-> path,
                          fromFile |-> fromFileOf(importer, platform),
                          meta |-> optGet(optGet(pluginData, "embroider"), "meta")],
        adapter |-> Adapter(cache, ph, kind)]
  ELSE Undef

create(cache, ph, kind, path, importer, pluginData, platform) ==
  IF not(coalesce(optGet(optGet(pluginData, "embroider"), "enableCustomResolver"), Bool(TRUE)))
  THEN Undef
  ELSE IF truthy(path) /\ truthy(importer) /\ Head(path) # NUL
            /\ ~startsWith(path, VirtualModulePrefix)
  THEN [initialState |-> [specifier |-> path,
                          fromFile |-> fromFileOf(importer, platform),
                          meta |-> optGet(optGet(pluginData, "embroider"), "meta")],
        adapter |-> Adapter(cache, ph, kind)]
  ELSE Undef

----------------------------------------------------------------------------
(* The responders *)

ModuleNotFound ==
  <<"m", "o", "d", "u", "l", "e", " ", "n", "o", "t", " ", "f", "o", "u", "n", "d", " ">>

notFoundResponseNoSpace(request) ==
  [type |-> "not_found",
   err |-> [errors |-> <<[text |-> SubSeq(ModuleNotFound, 1, 16) \o request.specifier]>>]]

notFoundResponse(request) ==
  [type |-> "not_found",
   err |-> [errors |-> <<[text |-> ModuleNotFound \o request.specifier]>>]]

NsVirtual ==
  <<"e", "m", "b", "r", "o", "i", "d", "e", "r", "-", "v", "i", "r", "t", "u", "a", "l">>
VirtualSpec == NsVirtual \o <<":", "f">>
Virtuals == {[specifier |-> VirtualSpec], [specifier |-> RelSpec]}

virtualResponseOfRequest(request, virtual) ==
  [type |-> "found",
   filename |-> request.specifier,
   result |-> [path |-> request.specifier, namespace |-> NsVirtual,
               pluginData |-> [virtual |-> virtual]],
   virtual |-> virtual]

virtualResponse(request, virtual) ==
  [type |-> "found",
   filename |-> virtual.specifier,
   result |-> [path |-> virtual.specifier, namespace |-> NsVirtual,
               pluginData |-> [virtual |-> virtual]],
   virtual |-> virtual]

----------------------------------------------------------------------------
(* The adapter and the rollup resolver, interleaved at the await *)

Calls == 1..MaxCalls
Idle == [state |-> "idle"]
Awaiting(request) == [state |-> "awaiting", request |-> request]
NoneYet == [kind |-> "none"]
HostFailure == [thrownBy |-> "context.resolve"]

\* no build of the declarations plugin has started
NoBuild ==
  [rollup |-> "idle", glint |-> "none", glintPromise |-> "none",
   files |-> [f \in {} |-> << >>], emitted |-> [f \in {} |-> << >>],
   fixing |-> [f \in {} |-> "none"], content |-> [f \in {} |-> << >>]]
InitialBuilds == {NoBuild}

ConcurrentSpecifiers == {RelSpec, PkgSpec}

\* nothing written or observed yet, no resolve call nested in another
InitialHistory ==
  [first |-> [s \in ConcurrentSpecifiers |-> NoStatus],
   observed |-> [s \in ConcurrentSpecifiers |-> 0],
   overlap |-> FALSE,
   attributed |-> NoStatus,
   stray |-> [s \in ConcurrentSpecifiers |-> FALSE],
   afterStray |-> FALSE,
   parent |-> [c \in Calls |-> 0]]

Init ==
  /\ channel = sharedGlobalState
  /\ calls = [c \in Calls |-> Idle]
  /\ last = NoneYet
  /\ phase \in {"bundling", "other"}
  /\ packageCache \in PackageCaches
  /\ log = << >>
  /\ build \in InitialBuilds
  /\ hist = InitialHistory

\* resolve(request) up to the await: requestStatus, then the host resolver is called
ResolveCall(c, specifier) ==
  /\ calls[c].state = "idle"
  /\ channel' = requestStatus(channel, specifier)
  /\ calls' = [calls EXCEPT ![c] = Awaiting([specifier |-> specifier])]
  /\ UNCHANGED <<last, phase, packageCache, log, build>>

\* the rollup resolver reports what vite decided for id
WriteStatus(id, status) ==
  /\ channel' = writeStatus(channel, id, status)
  /\ UNCHANGED <<calls, last, phase, packageCache, log, build>>

\* the host resolver answers; resolve runs from readStatus to its return
ResolveResume(c, result) ==
  /\ calls[c].state = "awaiting"
  /\ LET request == calls[c].request
         read == readStatus(channel, request.specifier)
     IN /\ channel' = read.channel
        /\ last' = [kind |-> "returned",
                    request |-> request,
                    result |-> result,
                    status |-> read.result,
                    ret |-> resolution(phase, packageCache, request, result, read.result)]
  /\ calls' = [calls EXCEPT ![c] = Idle]
  /\ UNCHANGED <<phase, packageCache, log, build>>

\* the host resolver's promise rejects: the await throws out of resolve
ResolveReject(c) ==
  /\ calls[c].state = "awaiting"
  /\ last' = [kind |-> "thrown", request |-> calls[c].request, error |-> HostFailure]
  /\ calls' = [calls EXCEPT ![c] = Idle]
  /\ UNCHANGED <<channel, phase, packageCache, log, build>>

InFlight == {c \in Calls : calls[c].state = "awaiting"}

\* Concurrent resolutions: any number of calls up to MaxCalls suspended at
\* the await, the rollup resolver writing at any time, the host resolver
\* answering or failing.  The host's answers are the file-namespace ones.
ConcurrentResults(specifier) ==
  {r \in HostResults(specifier) : r.namespace = NsFile /\ r.path # DepFile}

Next ==
  \/ \E c \in Calls, s \in ConcurrentSpecifiers : ResolveCall(c, s) /\ UNCHANGED hist
  \/ \E id \in ConcurrentSpecifiers, status \in WrittenStatus :
       WriteStatus(id, status) /\ UNCHANGED hist
  \/ \E c \in InFlight : \E result \in ConcurrentResults(calls[c].request.specifier) :
       ResolveResume(c, result) /\ UNCHANGED hist
  \/ \E c \in InFlight : ResolveReject(c) /\ UNCHANGED hist

Spec == Init /\ [][Next]_vars

\* One resolution at a time, over every specifier and every answer of the
\* host resolver.
AdapterNext ==
  \/ \E c \in Calls, s \in Specifiers :
       InFlight = {} /\ ResolveCall(c, s) /\ UNCHANGED hist
  \/ \E id \in Specifiers, status \in WrittenStatus :
       WriteStatus(id, status) /\ UNCHANGED hist
  \/ \E c \in InFlight : \E result \in HostResults(calls[c].request.specifier) :
       ResolveResume(c, result) /\ UNCHANGED hist

AdapterSpec == Init /\ [][AdapterNext]_vars

----------------------------------------------------------------------------
(* The resolver driving the adapter: create, resolve, the responders *)

\* path.dirname
RECURSIVE dirname(_)
dirname(file) ==
  IF file = << >> THEN << >>
  ELSE IF file[Len(file)] \in {"/", "\\"} THEN SubSeq(file, 1, Len(file) - 1)
  ELSE dirname(SubSeq(file, 1, Len(file) - 1))

\* the arguments of this.context.resolve
hostCall(request, adapter) ==
  [path |-> request.specifier,
   options |-> [importer |-> request.fromFile,
                resolveDir |-> dirname(request.fromFile),
                kind |-> adapter.kind,
                pluginData |-> PluginData(Embroider(Bool(FALSE), request.meta))]]

CreateArgs(path, importer, pluginData, kind, platform) ==
  [path |-> path, importer |-> importer, pluginData |-> pluginData, kind |-> kind,
   platform |-> platform]

\* the host asks the plugin about an import; within is the resolve call whose
\* host call it is serving, 0 when it comes from the build itself
Create(args, within) ==
  /\ last' = [kind |-> "created",
              args |-> args,
              within |-> within,
              made |-> create(packageCache, phase, args.kind, args.path, args.importer,
                              args.pluginData, args.platform)]
  /\ UNCHANGED <<channel, calls, phase, packageCache, log, build, hist>>

\* the host resolver, serving the host call of c, asks the plugin again
Reenter(c, platform) ==
  /\ calls[c].state = "awaiting"
  /\ LET h == calls[c].hostCall
     IN Create(CreateArgs(h.path, h.options.importer, h.options.pluginData,
                          h.options.kind, platform), c)

\* resolve(initialState) on the adapter just created, up to the await
Drive(c) ==
  /\ calls[c].state = "idle"
  /\ last.kind = "created"
  /\ last.made # Undef
  /\ LET request == last.made.initialState
         adapter == last.made.adapter
     IN /\ channel' = requestStatus(channel, request.specifier)
        /\ calls' = [calls EXCEPT ![c] = [state |-> "awaiting",
                                          request |-> request,
                                          adapter |-> adapter,
                                          hostCall |-> hostCall(request, adapter)]]
        /\ last' = [kind |-> "resolving", request |-> request]
  /\ hist' = [hist EXCEPT !.parent[c] = last.within]
  /\ UNCHANGED <<phase, packageCache, log, build>>

Requests ==
  {[specifier |-> s, fromFile |-> cleanUrl(Importer), meta |-> m] :
     s \in ConcurrentSpecifiers, m \in {Undef, Meta}}

RespondVirtual(request, virtual) ==
  /\ last' = [kind |-> "virtual", request |-> request, virtual |-> virtual,
              ret |-> virtualResponse(request, virtual)]
  /\ UNCHANGED <<channel, calls, phase, packageCache, log, build, hist>>

RespondNotFound(request) ==
  /\ last' = [kind |-> "notFound", request |-> request, ret |-> notFoundResponse(request)]
  /\ UNCHANGED <<channel, calls, phase, packageCache, log, build, hist>>

PlainResult == [path |-> DepFile, external |-> FALSE, namespace |-> NsFile, errors |-> << >>]

PluginNext ==
  \/ \E path \in Paths, importer \in Importers, pluginData \in PluginDatas,
        platform \in Platforms :
       InFlight = {} /\ Create(CreateArgs(path, importer, pluginData, ImportKind, platform), 0)
  \/ \E c \in Calls, platform \in Platforms : Reenter(c, platform)
  \/ \E c \in Calls : Drive(c)
  \/ \E id \in ConcurrentSpecifiers, status \in WrittenStatus :
       WriteStatus(id, status) /\ UNCHANGED hist
  \/ \E c \in InFlight :
       ResolveResume(c, PlainResult) /\ hist' = [hist EXCEPT !.parent[c] = 0]
  \/ \E request \in Requests, virtual \in Virtuals : RespondVirtual(request, virtual)
  \/ \E request \in Requests : RespondNotFound(request)

PluginSpec == Init /\ [][PluginNext]_vars

----------------------------------------------------------------------------
(* Concurrent resolutions with their history *)

\* the resolve calls suspended at the await for this specifier
InFlightFor(specifier) == {c \in InFlight : calls[c].request.specifier = specifier}

\* hist.first[s]    the first status written for s since the latest resolve
\*                  for s started, NoStatus when none was
\* hist.observed[s] how many readStatus calls returned the status that the
\*                  latest effective writeStatus stored for s
\* hist.overlap     two resolve calls for one specifier were in flight together
\* hist.attributed  at the latest return, the first status written during the
\*                  returning call (pending when none was)
\* hist.stray[s]    a writeStatus for s stored its status while no resolve for
\*                  s was in flight, and no resolve for s has returned since
HistoryCall(c, specifier) ==
  /\ ResolveCall(c, specifier)
  /\ hist' = [hist EXCEPT !.first[specifier] = NoStatus,
                          !.overlap = @ \/ InFlightFor(specifier) # {}]

HistoryWrite(id, status) ==
  /\ WriteStatus(id, status)
  /\ hist' = [hist EXCEPT
                !.first[id] = IF @ = NoStatus /\ InFlightFor(id) # {} THEN status ELSE @,
                !.observed[id] = IF channel' # channel THEN 0 ELSE @,
                !.stray[id] = @ \/ (InFlightFor(id) = {} /\ channel' # channel)]

HistoryResume(c, result) ==
  /\ ResolveResume(c, result)
  /\ LET specifier == calls[c].request.specifier
         status == readStatus(channel, specifier).result
     IN hist' = [hist EXCEPT
                   !.observed[specifier] = IF status.type # "pending" THEN @ + 1 ELSE @,
                   !.attributed = IF hist.first[specifier] = NoStatus
                                  THEN Pending ELSE hist.first[specifier],
                   !.afterStray = hist.stray[specifier],
                   !.stray[specifier] = FALSE]

HistoryReject(c) == ResolveReject(c) /\ UNCHANGED hist

HistoryNext ==
  \/ \E c \in Calls, s \in ConcurrentSpecifiers : HistoryCall(c, s)
  \/ \E id \in ConcurrentSpecifiers, status \in WrittenStatus : HistoryWrite(id, status)
  \/ \E c \in InFlight : HistoryResume(c, PlainResult)
  \/ \E c \in InFlight : HistoryReject(c)

HistorySpec == Init /\ [][HistoryNext]_vars

----------------------------------------------------------------------------
(* rollup-declarations: fixDeclarations *)

Quotes == {"'", "\""}
Whitespace == {" ", "\n", "\t"}
FromWord == <<"f", "r", "o", "m">>
GtsExt == <<".", "g", "t", "s">>

\* word occurs in text at position i
at(text, i, word) ==
  /\ i + Len(word) - 1 <= Len(text)
  /\ SubSeq(text, i, i + Len(word) - 1) = word

\* the first position from i on that does not hold a character of chars
RECURSIVE skip(_, _, _)
skip(text, i, chars) ==
  IF i <= Len(text) /\ text[i] \in chars THEN skip(text, i + 1, chars) ELSE i

\* the first position from i on that holds a quote, Len(text) + 1 when none does
RECURSIVE quoteFrom(_, _)
quoteFrom(text, i) ==
  IF i > Len(text) \/ text[i] \in Quotes THEN i ELSE quoteFrom(text, i + 1)

\* /from\s+['"]([^'"]+)\.gts['"]/ matched at position i: the opening quote is
\* at open, the closing one at close; [^'"]+ and \.gts hold no quote, so the
\* closing quote is the first quote after the opening one
matchOpen(text, i) == skip(text, i + 4, Whitespace)
matchClose(text, i) == quoteFrom(text, matchOpen(text, i) + 1)
matches(text, i) ==
  /\ at(text, i, FromWord)
  /\ matchOpen(text, i) > i + 4
  /\ matchOpen(text, i) <= Len(text)
  /\ text[matchOpen(text, i)] \in Quotes
  /\ matchClose(text, i) <= Len(text)
  /\ matchClose(text, i) - 4 > matchOpen(text, i) + 1
  /\ SubSeq(text, matchClose(text, i) - 4, matchClose(text, i) - 1) = GtsExt

\* `from '$1'`
replacement(text, i) ==
  FromWord \o <<" ", "'">>
    \o SubSeq(text, matchOpen(text, i) + 1, matchClose(text, i) - 5) \o <<"'">>

\* String.prototype.replace with a /g pattern, scanning from position i
RECURSIVE replaceFrom(_, _)
replaceFrom(text, i) ==
  IF i > Len(text) THEN << >>
  ELSE IF matches(text, i)
  THEN replacement(text, i) \o replaceFrom(text, matchClose(text, i) + 1)
  ELSE <<text[i]>> \o replaceFrom(text, i + 1)

fixDeclarationsIdentity(content) == content

fixDeclarations(content) == replaceFrom(content, 1)

\* declaration texts as glint emits them
StaticGts == <<"f", "r", "o", "m", " ", "'", ".", "/", "f", ".", "g", "t", "s", "'", ";">>
StaticTs == <<"f", "r", "o", "m", " ", "'", ".", "/", "z", ".", "t", "s", "'", ";">>
DoubleGts == <<"f", "r", "o", "m", " ", "\"", ".", "/", "b", ".", "g", "t", "s", "\"", ";">>
DynamicGts == <<"i", "m", "p", "o", "r", "t", "(", "\"", ".", "/", "b", ".", "g", "t", "s", "\"", ")", ";">>
Contents == {StaticGts \o StaticTs, DoubleGts, StaticTs, StaticGts \o DynamicGts}

----------------------------------------------------------------------------
(* rollup-declarations: the plugin *)

IndexDts == <<"i", ".", "d", ".", "t", "s">>
FooDts == <<"c", "/", "f", ".", "d", ".", "t", "s">>
IndexJs == <<"i", ".", "j", "s">>
DtsSuffix == <<".", "d", ".", "t", "s">>
JsContent == <<"1">>

endsWith(text, suffix) ==
  /\ Len(text) >= Len(suffix)
  /\ SubSeq(text, Len(text) - Len(suffix) + 1, Len(text)) = suffix

\* walkSync(dir, { globs: ['**/*.d.ts'], directories: false })
dtsFiles(files) == {f \in DOMAIN files : endsWith(f, DtsSuffix)}

\* what glint --declaration leaves in the declarations directory
Emissions ==
  {[f \in {IndexDts, FooDts, IndexJs} |->
      IF f = IndexDts THEN a ELSE IF f = FooDts THEN b ELSE JsContent] :
     a \in Contents, b \in Contents}

writeBundleReturnsNothing(b) == TRUE

\* writeBundle: () => glintPromise; rollup goes on once the promise is fulfilled
writeBundleSettled(b) == b.glintPromise = "fulfilled"

\* buildStart: glintPromise = runGlint(), the promise is not returned
BuildStart ==
  /\ build.rollup = "idle"
  /\ build' = [build EXCEPT !.rollup = "building",
                            !.glint = "running",
                            !.glintPromise = "pending"]
  /\ UNCHANGED <<channel, calls, last, phase, packageCache, log, hist>>

\* the glint process exits with success, its declarations are on disk
GlintExit(emission) ==
  /\ build.glint = "running"
  /\ build' = [build EXCEPT !.glint = "exited", !.files = emission, !.emitted = emission]
  /\ UNCHANGED <<channel, calls, last, phase, packageCache, log, hist>>

\* the glint process fails: execa rejects and so does runGlint
GlintFail ==
  /\ build.glint = "running"
  /\ build' = [build EXCEPT !.glint = "failed", !.glintPromise = "rejected"]
  /\ UNCHANGED <<channel, calls, last, phase, packageCache, log, hist>>

\* runGlint resumes after await execa: fixDeclarationsInMatchingFiles walks the
\* directory and starts one readFile per matching file
FixStart ==
  /\ build.glint = "exited"
  /\ build.glintPromise = "pending"
  /\ DOMAIN build.fixing = {}
  /\ build' = [build EXCEPT !.fixing = [f \in dtsFiles(build.files) |-> "reading"]]
  /\ UNCHANGED <<channel, calls, last, phase, packageCache, log, hist>>

\* readFile(file) of one map callback completes
ReadDone(f) ==
  /\ f \in DOMAIN build.fixing
  /\ build.fixing[f] = "reading"
  /\ build' = [build EXCEPT
                 !.fixing = [@ EXCEPT ![f] = "writing"],
                 !.content = [g \in DOMAIN @ \cup {f} |-> IF g = f THEN build.files[f] ELSE @[g]]]
  /\ UNCHANGED <<channel, calls, last, phase, packageCache, log, hist>>

\* writeFile(file, fixDeclarations(content)) of one map callback completes
WriteDone(f) ==
  /\ f \in DOMAIN build.fixing
  /\ build.fixing[f] = "writing"
  /\ build' = [build EXCEPT
                 !.fixing = [@ EXCEPT ![f] = "written"],
                 !.files = [@ EXCEPT ![f] = fixDeclarations(build.content[f])]]
  /\ UNCHANGED <<channel, calls, last, phase, packageCache, log, hist>>

\* Promise.all is fulfilled, runGlint returns
FixDone ==
  /\ build.glintPromise = "pending"
  /\ DOMAIN build.fixing # {}
  /\ \A f \in DOMAIN build.fixing : build.fixing[f] = "written"
  /\ build' = [build EXCEPT !.glintPromise = "fulfilled"]
  /\ UNCHANGED <<channel, calls, last, phase, packageCache, log, hist>>

\* rollup has written the bundle and calls the writeBundle hook
WriteBundle ==
  /\ build.rollup = "building"
  /\ build' = [build EXCEPT !.rollup = "writeBundle"]
  /\ UNCHANGED <<channel, calls, last, phase, packageCache, log, hist>>

\* the promise writeBundle returned is fulfilled: rollup reports the build done
BuildDone ==
  /\ build.rollup = "writeBundle"
  /\ writeBundleSettled(build)
  /\ build' = [build EXCEPT !.rollup = "done"]
  /\ UNCHANGED <<channel, calls, last, phase, packageCache, log, hist>>

\* the promise writeBundle returned is rejected: the build fails
BuildFail ==
  /\ build.rollup = "writeBundle"
  /\ build.glintPromise = "rejected"
  /\ build' = [build EXCEPT !.rollup = "failed"]
  /\ UNCHANGED <<channel, calls, last, phase, packageCache, log, hist>>

DeclNext ==
  \/ BuildStart
  \/ \E emission \in Emissions : GlintExit(emission)
  \/ GlintFail
  \/ FixStart
  \/ \E f \in {IndexDts, FooDts} : ReadDone(f)
  \/ \E f \in {IndexDts, FooDts} : WriteDone(f)
  \/ FixDone
  \/ WriteBundle
  \/ BuildDone
  \/ BuildFail

DeclSpec == Init /\ [][DeclNext]_vars

----------------------------------------------------------------------------
(* The channel's three operations applied in any order *)

LedgerIds == {RelSpec, PkgSpec}

Entry(op, id, arg, ret) ==
  [op |-> op, id |-> id, arg |-> arg, ret |-> ret, before |-> channel, after |-> channel']

LedgerRequest(id) ==
  /\ Len(log) < MaxOps
  /\ channel' = requestStatus(channel, id)
  /\ log' = Append(log, Entry("requestStatus", id, NoStatus, NoStatus))
  /\ UNCHANGED <<calls, last, phase, packageCache, build>>

LedgerWrite(id, status) ==
  /\ Len(log) < MaxOps
  /\ channel' = writeStatus(channel, id, status)
  /\ log' = Append(log, Entry("writeStatus", id, status, NoStatus))
  /\ UNCHANGED <<calls, last, phase, packageCache, build>>

LedgerRead(id) ==
  /\ Len(log) < MaxOps
  /\ channel' = readStatus(channel, id).channel
  /\ log' = Append(log, Entry("readStatus", id, NoStatus, readStatus(channel, id).result))
  /\ UNCHANGED <<calls, last, phase, packageCache, build>>

LedgerNext ==
  \/ \E id \in LedgerIds : LedgerRequest(id) /\ UNCHANGED hist
  \/ \E id \in LedgerIds, status \in WrittenStatus : LedgerWrite(id, status) /\ UNCHANGED hist
  \/ \E id \in LedgerIds : LedgerRead(id) /\ UNCHANGED hist

LedgerSpec == Init /\ [][LedgerNext]_vars

----------------------------------------------------------------------------
(* Properties of resolve under concurrent resolutions (Spec) *)

Returned == last.kind = "returned"
Thrown == last.kind = "thrown"
HostHasErrors == Len(last.result.errors) > 0

\* call c was suspended and completes in this step by returning
Returns(c) ==
  /\ calls[c].state = "awaiting"
  /\ calls'[c].state = "idle"
  /\ last'.kind = "returned"

\* C1 as stated: if the rollup resolver wrote found F for the specifier before
\* the resolve call completes (here: F is even what the channel still holds
\* when the host answers) and the host result is marked external (here: and
\* lists no errors), resolve returns found with filename F.
C1_AsStated ==
  [][\A c \in Calls, f \in Filenames :
       ( /\ Returns(c)
         /\ mapGet(channel, calls[c].request.specifier) = FoundStatus(f)
         /\ last'.result.external
         /\ Len(last'.result.errors) = 0 )
       => (last'.ret.type = "found" /\ last'.ret.filename = f)]_vars

\* C1: if the status resolve consumes from the channel is found F, and the
\* host result is marked external, carries no errors and does not fall under
\* the app-boundary policy, resolve returns found with filename F and the host
\* result untouched.
C1_Disambiguation ==
  \A f \in Filenames :
    ( /\ Returned
      /\ last.status = FoundStatus(f)
      /\ last.result.external
      /\ ~HostHasErrors
      /\ ~boundaryFires(phase, packageCache, last.result) )
    => ( /\ last.ret.type = "found"
         /\ last.ret.filename = f
         /\ last.ret.result = last.result )

\* the true filename is reported in place of the host's externalized path,
\* while another resolve call is still suspended
C1_Witness ==
  /\ Returned
  /\ last.status = FoundStatus(DepFile)
  /\ last.result.external
  /\ last.result.path = last.request.specifier
  /\ last.ret.type = "found"
  /\ last.ret.filename = DepFile
  /\ InFlight # {}

\* C2 as stated: a specifier is in the channel only while a resolve call for
\* it is suspended between its requestStatus and its readStatus; once every
\* call has completed, by returning or by the host's failure, the channel is
\* empty.
C2_LedgerLifetime ==
  \A id \in DOMAIN channel :
    \E c \in InFlight : calls[c].request.specifier = id

WellFormed(ret) ==
  \/ /\ ret.type = "not_found"
     /\ DOMAIN ret = {"type", "err"}
  \/ /\ ret.type = "found"
     /\ DOMAIN ret = {"type", "filename", "result", "virtual"}
     /\ truthy(ret.filename)
     /\ ret.virtual = FALSE

\* C6 as stated: every resolve call ends by returning a well-formed
\* Resolution; a failure of the host resolver is never thrown out of resolve.
C6_AsStated ==
  /\ ~Thrown
  /\ Returned => WellFormed(last.ret)

\* C6: a resolve call whose host resolver call answers ends by returning a
\* well-formed Resolution, and errors listed in the host's answer are
\* delivered as not_found carrying that answer; when the host resolver call
\* itself fails, resolve throws that failure to its caller.
C6_ReturnsOrPropagates ==
  /\ Returned => /\ WellFormed(last.ret)
                 /\ HostHasErrors => last.ret = [type |-> "not_found", err |-> last.result]
  /\ Thrown => last.error = HostFailure

C6_Witness ==
  /\ Returned
  /\ HostHasErrors
  /\ last.result.external
  /\ last.ret = [type |-> "not_found", err |-> last.result]

----------------------------------------------------------------------------
(* Properties of one resolution (AdapterSpec) *)

AppOwned == ownerOfFile(packageCache, last.result.path).root = packageCache.appRoot
OwnNamespace ==
  last.result.namespace = NsFile \/ startsWith(last.result.namespace, EmbroiderPrefix)

\* C7: in either phase, when the host result carries an error or the status
\* consumed is not_found, resolve returns not_found carrying the host result,
\* whatever the boundary policy or the rest of the host result says.
C7_NotFoundRule ==
  (Returned /\ (HostHasErrors \/ last.status = NotFoundStatus))
  => last.ret = [type |-> "not_found", err |-> last.result]

\* not_found from the channel wins over a successful host result that the
\* boundary policy would have externalized
C7_Witness ==
  /\ Returned
  /\ last.status = NotFoundStatus
  /\ ~HostHasErrors
  /\ phase = "bundling" /\ AppOwned /\ last.result.namespace = NsFile
  /\ last.ret = [type |-> "not_found", err |-> last.result]

Externalized(name) ==
  [type |-> "found", filename |-> name, virtual |-> FALSE,
   result |-> [path |-> name, external |-> TRUE]]

BoundaryCase ==
  /\ Returned
  /\ ~HostHasErrors /\ last.status # NotFoundStatus
  /\ phase = "bundling" /\ AppOwned /\ last.result.namespace = NsFile

\* C8 as stated (for a resolve that is not not_found): in the bundling phase,
\* for a host-resolved file of the app in namespace file, resolve returns an
\* externalized found result whose filename never equals the on-disk path.
C8_AsStated ==
  BoundaryCase =>
    /\ \E name \in {last.ret.filename} : last.ret = Externalized(name)
    /\ last.ret.filename # last.result.path

\* C8: in the bundling phase, for a host-resolved file of the app in namespace
\* file, and unless the not-found rule applies, resolve returns found with
\* result.external = true, virtual = false and result.path = filename = the
\* externalized name; that name equals the on-disk path of the app file only
\* when the specifier, or the name looked up for it, is itself that path.
C8_BoundaryFiring ==
  BoundaryCase =>
    /\ \E name \in {last.ret.filename} : last.ret = Externalized(name)
    /\ last.ret.filename = last.result.path =>
         last.result.path \in
           {last.request.specifier,
            externalName(ownerOfFile(packageCache, last.result.path).packageJSON,
                         last.request.specifier)}

C8_Witness ==
  /\ BoundaryCase
  /\ last.request.specifier = PkgSpec
  /\ last.result.path = AppFile
  /\ last.ret = Externalized(PkgSpec)

\* C9: a successful resolve returns the synthetic externalized result only if
\* the phase is bundling, the owner of the host-resolved file has the app's
\* root and the host namespace is file or starts with embroider-; in every
\* other case it returns the host result itself.
C9_BoundaryNonFiring ==
  (Returned /\ last.ret.type = "found") =>
    /\ last.ret.result # last.result => (phase = "bundling" /\ AppOwned /\ OwnNamespace)
    /\ ~(phase = "bundling" /\ AppOwned /\ OwnNamespace) =>
         /\ last.ret.result = last.result
         /\ last.ret.virtual = FALSE

\* the setup of the boundary case, but in phase other
C9_Witness ==
  /\ Returned
  /\ phase = "other" /\ AppOwned /\ last.result.namespace = NsFile
  /\ ~last.result.external
  /\ last.ret = [type |-> "found", filename |-> AppFile, result |-> last.result, virtual |-> FALSE]

Fired == Returned /\ last.ret.type = "found" /\ last.ret.result # last.result

\* C10: when the boundary policy fires, a specifier with a package-name prefix
\* is externalized as itself; one without is externalized to the name the
\* external-name lookup on the owner's manifest returns, and to the specifier
\* itself when the lookup returns nothing.
C10_ExternalizedName ==
  Fired =>
    LET specifier == last.request.specifier
        lookup == externalName(ownerOfFile(packageCache, last.result.path).packageJSON, specifier)
    IN IF Head(specifier) \notin {".", "/"} THEN last.ret.filename = specifier
       ELSE IF lookup # undefined THEN last.ret.filename = lookup
       ELSE last.ret.filename = specifier

\* ./w of the app m is externalized as m/w
C10_Witness ==
  /\ Fired
  /\ last.request.specifier = RelSpec
  /\ last.ret.filename = <<"m", "/", "w">>

----------------------------------------------------------------------------
(* Properties of the channel (LedgerSpec) *)

Steps == 1..Len(log)
IsWrite(i, type) == log[i].op = "writeStatus" /\ log[i].arg.type = type
IsRead(i) == log[i].op = "readStatus"
IsRequest(i) == log[i].op = "requestStatus"

\* i writes found, j > i writes not_found for the same id, and k is the next
\* readStatus of that id after i
FoundThenNotFoundThenRead(i, j, k) ==
  /\ i < j /\ j < k
  /\ IsWrite(i, "found") /\ IsWrite(j, "not_found") /\ IsRead(k)
  /\ log[j].id = log[i].id /\ log[k].id = log[i].id
  /\ \A m \in Steps : (i < m /\ m < k /\ log[m].id = log[i].id) => ~IsRead(m)

NoRequestBetween(i, k) ==
  \A m \in Steps : (i < m /\ m < k /\ log[m].id = log[i].id) => ~IsRequest(m)

\* C3 as stated: writeStatus(id, found) followed by writeStatus(id, not_found)
\* with no intervening read makes the next readStatus(id) return the first
\* found value, for every id.
C3_AsStated ==
  \A i, j, k \in Steps :
    FoundThenNotFoundThenRead(i, j, k) => log[k].ret = log[i].arg

\* C3: when id holds pending at the moment of writeStatus(id, found), a later
\* writeStatus(id, not_found) is ignored: with no readStatus and no
\* requestStatus of id in between, the next readStatus(id) returns the first
\* found value.
C3_FirstWriteWins ==
  \A i, j, k \in Steps :
    ( /\ FoundThenNotFoundThenRead(i, j, k)
      /\ mapGet(log[i].before, log[i].id).type = "pending"
      /\ NoRequestBetween(i, k) )
    => log[k].ret = log[i].arg

C3_Witness ==
  \E i, j, k \in Steps :
    /\ FoundThenNotFoundThenRead(i, j, k)
    /\ mapGet(log[i].before, log[i].id).type = "pending"
    /\ NoRequestBetween(i, k)
    /\ log[k].ret = FoundStatus(DepFile)

\* C4: writeStatus(id, status) changes the channel only when id holds pending,
\* and then only the entry of id; when id holds found or not_found, or is
\* absent, the whole channel is left as it was.
C4_GuardedWrite ==
  \A i \in Steps :
    log[i].op = "writeStatus" =>
      IF mapGet(log[i].before, log[i].id).type = "pending"
      THEN /\ DOMAIN log[i].after = DOMAIN log[i].before
           /\ \A k \in DOMAIN log[i].after :
                log[i].after[k] = IF k = log[i].id THEN log[i].arg ELSE log[i].before[k]
      ELSE log[i].after = log[i].before

\* a write to an absent id and a write to an id that holds found, both ignored
C4_Witness ==
  /\ \E i \in Steps :
       /\ IsWrite(i, "not_found")
       /\ mapGet(log[i].before, log[i].id).type = "found"
       /\ log[i].after = log[i].before
  /\ \E i \in Steps :
       /\ log[i].op = "writeStatus"
       /\ log[i].id \notin DOMAIN log[i].before
       /\ log[i].after = log[i].before

\* i and k are readStatus(id) calls with no other operation on id in between
ReadTwice(i, k) ==
  /\ i < k
  /\ IsRead(i) /\ IsRead(k)
  /\ log[k].id = log[i].id
  /\ \A m \in Steps : (i < m /\ m < k) => log[m].id # log[i].id

\* C5: whatever the channel held, the second of two successive readStatus(id)
\* returns pending, the first having deleted the entry.
C5_SingleConsumption ==
  \A i, k \in Steps :
    ReadTwice(i, k) =>
      /\ log[i].id \notin DOMAIN log[i].after
      /\ log[k].ret = Pending

C5_Witness ==
  \E i, k \in Steps :
    /\ ReadTwice(i, k)
    /\ log[i].ret = FoundStatus(DepFile)
    /\ log[k].ret = Pending

----------------------------------------------------------------------------
(* create, the responders and re-entry, under PluginSpec *)

Created == last.kind = "created"

\* the flag of the call's metadata is written, and written as false
FlagExplicitlyFalse(pluginData) ==
  /\ pluginData.t = "object"
  /\ pluginData.embroider.t = "object"
  /\ pluginData.embroider.enableCustomResolver = Bool(FALSE)

ForwardedMeta(pluginData) ==
  IF pluginData.t = "object" /\ pluginData.embroider.t = "object"
  THEN pluginData.embroider.meta
  ELSE Undef

Declines(args) ==
  \/ FlagExplicitlyFalse(args.pluginData)
  \/ args.path = undefined
  \/ args.importer = undefined
  \/ (args.path # undefined /\ args.path[1] = NUL)
  \/ startsWith(args.path, VirtualModulePrefix)

\* C11: create returns nothing exactly when the enableCustomResolver flag of the
\* call's metadata is explicitly false, or path is empty, or importer is empty,
\* or path begins with the null character, or path starts with virtual-module:;
\* in every other case, a missing flag or missing metadata included, it returns
\* {initialState, adapter} with initialState.specifier = path and
\* initialState.meta = the forwarded meta.
C11_FactoryGating ==
  Created =>
    /\ (last.made = Undef) <=> Declines(last.args)
    /\ ~Declines(last.args) =>
         /\ DOMAIN last.made = {"initialState", "adapter"}
         /\ last.made.initialState.specifier = last.args.path
         /\ last.made.initialState.meta = ForwardedMeta(last.args.pluginData)

C11_Witness ==
  /\ Created
  /\ last.args.pluginData = PluginData(Embroider(Undef, Meta))
  /\ last.made # Undef
  /\ last.made.initialState.specifier = PkgSpec
  /\ last.made.initialState.meta = Meta

\* C12: virtualResponse(request, virtual) always returns found with filename =
\* virtual.specifier, result.path = virtual.specifier, the namespace
\* embroider-virtual and virtual set to the given value, and the call neither
\* starts a host resolution nor reads or changes the channel.
C12_VirtualPassthrough ==
  /\ [](last.kind = "virtual" =>
          /\ last.ret.type = "found"
          /\ last.ret.filename = last.virtual.specifier
          /\ last.ret.result.path = last.virtual.specifier
          /\ last.ret.result.namespace = NsVirtual
          /\ last.ret.virtual = last.virtual)
  /\ [][(last' # last /\ last'.kind = "virtual") => (channel' = channel /\ calls' = calls)]_vars

C12_Witness ==
  /\ last.kind = "virtual"
  /\ last.virtual.specifier = VirtualSpec
  /\ last.request.specifier = RelSpec
  /\ last.ret.filename = VirtualSpec
  /\ InFlight # {}

\* C13: for every request, notFoundResponse returns not_found whose errors list
\* holds exactly one message, "module not found " followed by the request's
\* specifier, and the call leaves the channel unchanged.
C13_NotFoundMessage ==
  /\ [](last.kind = "notFound" =>
          /\ last.ret.type = "not_found"
          /\ Len(last.ret.err.errors) = 1
          /\ Len(last.ret.err.errors[1].text) = 17 + Len(last.request.specifier)
          /\ SubSeq(last.ret.err.errors[1].text, 1, 17)
               = <<"m", "o", "d", "u", "l", "e", " ", "n", "o", "t", " ",
                   "f", "o", "u", "n", "d", " ">>
          /\ SubSeq(last.ret.err.errors[1].text, 18, Len(last.ret.err.errors[1].text))
               = last.request.specifier)
  /\ [][(last' # last /\ last'.kind = "notFound") => channel' = channel]_vars

C13_Witness ==
  /\ last.kind = "notFound"
  /\ last.request.specifier = PkgSpec
  /\ last.ret.err.errors
       = << [text |-> <<"m", "o", "d", "u", "l", "e", " ", "n", "o", "t", " ",
                        "f", "o", "u", "n", "d", " ", "l", "/", "f">>] >>
  /\ DOMAIN channel # {}

\* C16: the host call of every resolve carries enableCustomResolver = false and
\* the request's meta; create declines every call that re-enters from such a
\* host call, so no resolve is ever started from within another resolve's host
\* call: the chain of intercepted resolutions has depth one.
C16_NoSelfInterception ==
  /\ \A c \in InFlight :
       "hostCall" \in DOMAIN calls[c] =>
         /\ calls[c].hostCall.path = calls[c].request.specifier
         /\ calls[c].hostCall.options.pluginData.embroider.enableCustomResolver = Bool(FALSE)
         /\ calls[c].hostCall.options.pluginData.embroider.meta = calls[c].request.meta
  /\ (Created /\ last.within # 0) => last.made = Undef
  /\ \A c \in Calls : hist.parent[c] = 0

C16_Witness ==
  /\ Created
  /\ last.within # 0
  /\ last.args.path = RelSpec
  /\ last.args.pluginData = PluginData(Embroider(Bool(FALSE), Meta))
  /\ last.made = Undef

----------------------------------------------------------------------------
(* The fallthrough of resolve, under AdapterSpec *)

Fallthrough ==
  /\ Returned
  /\ last.ret.type # "not_found"
  /\ ~(phase = "bundling" /\ AppOwned /\ OwnNamespace)

\* C17: when resolve returns neither not_found nor the externalized result of
\* the boundary policy, it returns found with virtual = false and result = the
\* host result unmodified; its filename is the channel's filename when the
\* consumed status is found and the host result is external, and the host
\* result's own path in every other case.
C17_FallthroughResult ==
  Fallthrough =>
    /\ last.ret.type = "found"
    /\ last.ret.virtual = FALSE
    /\ last.ret.result = last.result
    /\ (last.status.type = "found" /\ last.result.external)
         => last.ret.filename = last.status.filename
    /\ ~(last.status.type = "found" /\ last.result.external)
         => last.ret.filename = last.result.path

\* status found but the host result is not external: the host's path is kept
C17_Witness ==
  /\ Fallthrough
  /\ last.status = FoundStatus(DepFile)
  /\ ~last.result.external
  /\ last.result.path = AppFile
  /\ last.ret.filename = AppFile

----------------------------------------------------------------------------
(* requestStatus at the start of resolve, under LedgerSpec *)

\* j is the next operation on the id of i after i
NextOnId(i, j) ==
  /\ i < j
  /\ log[j].id = log[i].id
  /\ \A m \in Steps : (i < m /\ m < j) => log[m].id # log[i].id

\* C18: requestStatus(id), the first thing resolve does, makes the entry of id
\* pending whatever it held before (absent, pending, found or not_found) and
\* leaves every other entry alone, so a status still stored for id is replaced
\* and the next writeStatus for id takes effect.
C18_RequestUnconditional ==
  \A i \in Steps :
    IsRequest(i) =>
      /\ DOMAIN log[i].after = DOMAIN log[i].before \cup {log[i].id}
      /\ \A k \in DOMAIN log[i].after :
           log[i].after[k] = IF k = log[i].id THEN Pending ELSE log[i].before[k]
      /\ \A j \in Steps :
           (NextOnId(i, j) /\ log[j].op = "writeStatus")
             => mapGet(log[j].after, log[j].id) = log[j].arg

\* a found status is stored, requestStatus replaces it, and the next write,
\* of not_found, takes effect
C18_Witness ==
  \E i, j \in Steps :
    /\ IsRequest(i)
    /\ mapGet(log[i].before, log[i].id) = FoundStatus(DepFile)
    /\ mapGet(log[i].after, log[i].id) = Pending
    /\ NextOnId(i, j)
    /\ IsWrite(j, "not_found")
    /\ mapGet(log[j].after, log[j].id) = NotFoundStatus

----------------------------------------------------------------------------
(* Delivery and attribution of statuses, under HistorySpec *)

\* C19: with any number of resolve calls suspended at once, several for one
\* specifier included, each status that writeStatus stored is returned by at
\* most one readStatus; every other resolve of that specifier reads pending,
\* and every read yields a status (no operation on the channel fails).
C19_AtMostOnceDelivery ==
  /\ \A s \in ConcurrentSpecifiers : hist.observed[s] <= 1
  /\ Returned => last.status \in InternalStatus

\* two calls for one specifier were suspended together, a found status was
\* stored once and delivered once: the call that returned last read pending
C19_Witness ==
  /\ Returned
  /\ hist.overlap
  /\ last.request.specifier = RelSpec
  /\ hist.first[RelSpec] = FoundStatus(DepFile)
  /\ hist.observed[RelSpec] = 1
  /\ last.status = Pending
  /\ InFlight = {}

\* C20: if no two resolve calls for one specifier are ever in flight together,
\* the status a resolve call consumes is the first status written for its
\* specifier during its own host call, pending if none was written, whatever
\* other specifiers' calls and writes do; a status written while no resolve of
\* the specifier is in flight is therefore never consumed by a later resolve.
C20_Attribution ==
  (Returned /\ ~hist.overlap) => last.status = hist.attributed

\* a not_found stored while no call was in flight (the entry of a failed call
\* was still there), then a call that consumes the found written during its
\* own host call, while a call for the other specifier is suspended
C20_Witness ==
  /\ Returned
  /\ ~hist.overlap
  /\ hist.afterStray
  /\ last.request.specifier = RelSpec
  /\ last.status = FoundStatus(DepFile)
  /\ InFlightFor(PkgSpec) # {}

----------------------------------------------------------------------------
(* The declarations plugin, under DeclSpec *)

\* C14: buildStart starts the glint run and returns while it is running;
\* rollup reports the build done only after the glint run has exited and every
\* file matching **/*.d.ts has been rewritten, never while the declaration job
\* is still going.
C14_DeclarationsOrdering ==
  /\ [](build.rollup = "done" =>
          /\ build.glint = "exited"
          /\ build.glintPromise = "fulfilled"
          /\ dtsFiles(build.files) = {IndexDts, FooDts}
          /\ \A f \in dtsFiles(build.files) :
               /\ f \in DOMAIN build.fixing
               /\ build.fixing[f] = "written"
               /\ build.files[f] = fixDeclarations(build.emitted[f]))
  /\ [][(build.rollup = "idle" /\ build'.rollup # "idle") =>
          /\ build'.rollup = "building"
          /\ build'.glint = "running"
          /\ build'.glintPromise = "pending"]_vars

\* the build is done and index.d.ts was rewritten to a different text
C14_Witness ==
  /\ build.rollup = "done"
  /\ build.emitted[IndexDts] = StaticGts \o StaticTs
  /\ build.files[IndexDts] # build.emitted[IndexDts]
  /\ build.files[IndexJs] = JsContent

ImportCall == <<"i", "m", "p", "o", "r", "t", "(">>

\* the module names of the import references of a declaration text, in order:
\* the quoted string after from, and the quoted argument of import(
RECURSIVE importReferences(_, _)
importReferences(text, i) ==
  IF i > Len(text) THEN << >>
  ELSE LET open == IF at(text, i, FromWord) THEN skip(text, i + 4, Whitespace)
                   ELSE IF at(text, i, ImportCall) THEN i + 7
                   ELSE 0
           close == quoteFrom(text, open + 1)
       IN IF open > 0 /\ open <= Len(text) /\ text[open] \in Quotes /\ close <= Len(text)
          THEN <<SubSeq(text, open + 1, close - 1)>> \o importReferences(text, close + 1)
          ELSE importReferences(text, i + 1)

withoutGts(name) ==
  IF endsWith(name, GtsExt) THEN SubSeq(name, 1, Len(name) - 4) ELSE name

\* C15: in a rewritten declaration file every import reference to a .gts
\* module, in a from clause or in an import() expression, has lost the .gts
\* extension, and every other import reference is what glint emitted.
C15_ImportFixing ==
  \A f \in DOMAIN build.fixing :
    build.fixing[f] = "written" =>
      importReferences(build.files[f], 1)
        = [k \in 1..Len(importReferences(build.emitted[f], 1)) |->
             withoutGts(importReferences(build.emitted[f], 1)[k])]

====
